---- MODULE Spec2Model ----
(***************************************************************************)
(* A state-machine model of python/examples/langchain-twitter-chatbot/     *)
(* chatbot.py: the start-up sequence of initialize_agent (wallet-record    *)
(* file, key resolution, wallet provider, save), choose_mode, and the two  *)
(* run loops run_chat_mode and run_autonomous_mode.                        *)
(*                                                                         *)
(* Text is a sequence of one-character strings, so that str.lower() and    *)
(* str.strip() are computed rather than assumed.                           *)
(***************************************************************************)
EXTENDS Integers, Sequences, FiniteSets, TLC

\* ------------------------------------------------------------------ bounds
MaxPrompts == 2     \* inputs choose_mode reads in one run
MaxLines == 3       \* lines run_chat_mode reads in one run
MaxCycles == 2      \* dispatches run_autonomous_mode makes in one run
MaxChunks == 1      \* chunks one response stream yields

\* --------------------------------------------------------------- universes
Procs == {1, 2}                  \* runs of the program (processes)
None == "<None>"                 \* Python None / JSON null / unset variable
Absent == "<absent>"             \* a key the JSON object does not have
Empty == ""                      \* the empty string (falsy)
BadKey == "not-a-key"            \* a non-empty string Account.from_key rejects
RecordKeys == {"k1"}             \* valid keys a wallet record may hold
EnvKeys == {"e1"}                \* valid keys PRIVATE_KEY may hold
GenKeys == {"g1", "g2"}          \* keys Account.create() may return
Addrs == {"a1", "a2"}            \* addresses the wallet provider may report

\* ------------------------------------------------------------ pure helpers
\* str.lower(), one character
LowerChar(c) ==
    CASE c = "A" -> "a" [] c = "B" -> "b" [] c = "C" -> "c" [] c = "D" -> "d"
      [] c = "E" -> "e" [] c = "F" -> "f" [] c = "G" -> "g" [] c = "H" -> "h"
      [] c = "I" -> "i" [] c = "J" -> "j" [] c = "K" -> "k" [] c = "L" -> "l"
      [] c = "M" -> "m" [] c = "N" -> "n" [] c = "O" -> "o" [] c = "P" -> "p"
      [] c = "Q" -> "q" [] c = "R" -> "r" [] c = "S" -> "s" [] c = "T" -> "t"
      [] c = "U" -> "u" [] c = "V" -> "v" [] c = "W" -> "w" [] c = "X" -> "x"
      [] c = "Y" -> "y" [] c = "Z" -> "z" [] OTHER -> c

\* str.lower()
Lower(s) == [i \in 1..Len(s) |-> LowerChar(s[i])]

\* the characters str.strip() removes
IsSpace(c) == c \in {" ", "\t", "\n"}

RECURSIVE LStrip(_)
LStrip(s) == IF s # <<>> /\ IsSpace(Head(s)) THEN LStrip(Tail(s)) ELSE s

RECURSIVE RStrip(_)
RStrip(s) ==
    IF s # <<>> /\ IsSpace(s[Len(s)]) THEN RStrip(SubSeq(s, 1, Len(s) - 1)) ELSE s

\* str.strip()
Strip(s) == RStrip(LStrip(s))

\* Python truthiness of a value that is None or a string
Truthy(v) == v \notin {None, Empty, Absent}

\* dict.get(key): None when the key is absent
Get(d, k) == IF d[k] = Absent THEN None ELSE d[k]

\* Or with the operands' precedence swapped: PRIVATE_KEY first
OrEnvFirst(a, b) == IF Truthy(b) THEN b ELSE a

\* a or b
Or(a, b) == IF Truthy(a) THEN a ELSE b

\* the dict literal of line 36 and of lines 63-66
WalletRecord(k, a) ==
    [kind |-> "object", private_key |-> k, smart_wallet_address |-> a, extra |-> Absent]

\* file contents that are not a JSON object
NoRecord(kind) ==
    [kind |-> kind, private_key |-> Absent, smart_wallet_address |-> Absent,
     extra |-> Absent]

\* what the wallet-record file may hold when a run starts
FileContents ==
    {NoRecord(k) : k \in {"missing", "garbage", "notutf8", "nonobject"}}
    \cup [kind : {"object"},
          private_key : {Absent, None, Empty, BadKey} \cup RecordKeys,
          smart_wallet_address : {Absent, None, "a1"},
          extra : {Absent, "x"}]

\* what os.getenv("PRIVATE_KEY") may return
EnvValues == {None, Empty} \cup EnvKeys

VARIABLES
    runs,          \* the runs that were started
    file,          \* contents of wallet_data_<network_id>.txt
    env,           \* os.getenv("PRIVATE_KEY")
    lastWriter,    \* the run whose json.dump completed last (0: none)
    pc,            \* where each run is
    status,        \* "running", "returned", "exited" (sys.exit) or "crashed"
    exception,     \* the exception that ended the run, or None
    exitStatus,    \* the process exit status, -1 while running
    farewell,      \* "Goodbye Agent!" was printed
    warned,        \* the invalid-format warning was printed
    wallet_data,   \* initialize_agent's local wallet_data
    private_key,   \* initialize_agent's local private_key
    signer,        \* the key of the signer the provider holds
    address,       \* wallet_provider.get_address()
    choices,       \* the raw inputs choose_mode has read
    mode,          \* main's local mode
    interval,      \* run_autonomous_mode's interval parameter
    lines,         \* the raw lines run_chat_mode has read
    dispatched,    \* the message contents handed to agent_executor.stream
    remaining,     \* chunks the current stream has still to yield
    printed,       \* what the run loop printed for the last chunk
    log,           \* run_autonomous_mode: "dispatch" and "sleep" events
    slept          \* total time spent in time.sleep

shared == <<runs, file, env, lastWriter>>
ctl == <<pc, status, exception, exitStatus, farewell>>
startup == <<warned, wallet_data, private_key, signer, address>>
loop == <<choices, mode, interval, lines, dispatched, remaining, printed, log, slept>>
vars == <<shared, ctl, startup, loop>>

\* ------------------------------------------------------------ control flow
\* pc moves to `to`
Goto(p, to) ==
    /\ pc' = [pc EXCEPT ![p] = to]
    /\ UNCHANGED <<status, exception, exitStatus, farewell>>

\* an exception nothing catches: traceback, exit status 1
Raise(p, exc) ==
    /\ status' = [status EXCEPT ![p] = "crashed"]
    /\ exception' = [exception EXCEPT ![p] = exc]
    /\ exitStatus' = [exitStatus EXCEPT ![p] = 1]
    /\ UNCHANGED <<pc, farewell>>

At(p, where) == p \in runs /\ status[p] = "running" /\ pc[p] = where

\* -------------------------------------------------------------------- Init
InitCommon ==
    /\ file \in FileContents
    /\ env \in EnvValues
    /\ lastWriter = 0
    /\ pc = [p \in Procs |-> "llm"]
    /\ status = [p \in Procs |-> "running"]
    /\ exception = [p \in Procs |-> None]
    /\ exitStatus = [p \in Procs |-> -1]
    /\ farewell = [p \in Procs |-> FALSE]
    /\ warned = [p \in Procs |-> FALSE]
    /\ wallet_data = [p \in Procs |-> WalletRecord(None, None)]
    /\ private_key = [p \in Procs |-> None]
    /\ signer = [p \in Procs |-> None]
    /\ address = [p \in Procs |-> None]
    /\ choices = [p \in Procs |-> <<>>]
    /\ mode = [p \in Procs |-> None]
    /\ interval = [p \in Procs |-> 0]
    /\ lines = [p \in Procs |-> <<>>]
    /\ dispatched = [p \in Procs |-> <<>>]
    /\ remaining = [p \in Procs |-> 0]
    /\ printed = [p \in Procs |-> <<>>]
    /\ log = [p \in Procs |-> <<>>]
    /\ slept = [p \in Procs |-> 0]

Init == runs = {1} /\ InitCommon

\* -------------------------------------------------------- initialize_agent
\* line 31: ChatOpenAI(model=...)
InitLLM(p) ==
    /\ At(p, "llm")
    /\ \/ Goto(p, "load")
       \/ Raise(p, "LLMError")
    /\ UNCHANGED <<shared, startup, loop>>

\* json.load of the file's contents: the dict, a non-dict value, or an exception
JsonLoad(f) ==
    CASE f.kind = "object" -> [value |-> f, exc |-> None]
      [] f.kind = "nonobject" -> [value |-> f, exc |-> None]
      [] f.kind = "garbage" -> [value |-> None, exc |-> "JSONDecodeError"]
      [] f.kind = "notutf8" -> [value |-> None, exc |-> "UnicodeDecodeError"]

\* lines 36-42: the default record, os.path.exists, open, json.load, except
LoadWallet(p) ==
    /\ At(p, "load")
    /\ IF file.kind = "missing"
       THEN /\ wallet_data' = [wallet_data EXCEPT ![p] = WalletRecord(None, None)]
            /\ Goto(p, "resolve")
            /\ UNCHANGED warned
       ELSE LET r == JsonLoad(file) IN
            CASE r.exc = None ->
                   /\ wallet_data' = [wallet_data EXCEPT ![p] = r.value]
                   /\ Goto(p, "resolve")
                   /\ UNCHANGED warned
              [] r.exc = "JSONDecodeError" ->
                   /\ wallet_data' = [wallet_data EXCEPT ![p] = WalletRecord(None, None)]
                   /\ warned' = [warned EXCEPT ![p] = TRUE]
                   /\ Goto(p, "resolve")
              [] OTHER ->
                   /\ Raise(p, r.exc)
                   /\ UNCHANGED <<wallet_data, warned>>
    /\ UNCHANGED <<shared, private_key, signer, address, loop>>

\* the keys in use, which Account.create() does not return again
KeysInUse == {private_key[q] : q \in Procs} \cup {file.private_key}

\* lines 45-48: record key, else PRIVATE_KEY, else a generated key
ResolveKey(p) ==
    /\ At(p, "resolve")
    /\ IF wallet_data[p].kind # "object"
       THEN /\ Raise(p, "AttributeError")
            /\ UNCHANGED private_key
       ELSE LET k == Or(Get(wallet_data[p], "private_key"), env) IN
            /\ IF Truthy(k)
               THEN private_key' = [private_key EXCEPT ![p] = k]
               ELSE \E g \in GenKeys \ KeysInUse :
                        private_key' = [private_key EXCEPT ![p] = g]
            /\ Goto(p, "signer")
    /\ UNCHANGED <<shared, warned, wallet_data, signer, address, loop>>

\* line 50: Account.from_key(private_key)
MakeSigner(p) ==
    /\ At(p, "signer")
    /\ IF private_key[p] = BadKey
       THEN /\ Raise(p, "ValueError")
            /\ UNCHANGED signer
       ELSE /\ signer' = [signer EXCEPT ![p] = private_key[p]]
            /\ Goto(p, "provider")
    /\ UNCHANGED <<shared, warned, wallet_data, private_key, address, loop>>

\* ConstructProvider with the key persisted before the provider is built
ConstructProviderSavesFirst(p) ==
    /\ At(p, "provider")
    /\ \/ /\ \E a \in Addrs : address' = [address EXCEPT ![p] = a]
          /\ Goto(p, "save")
          /\ UNCHANGED file
       \/ /\ Raise(p, "ProviderError")
          /\ file' = WalletRecord(private_key[p], None)
          /\ UNCHANGED address
    /\ UNCHANGED <<runs, env, lastWriter, warned, wallet_data, private_key, signer, loop>>

\* lines 53-60: SmartWalletProvider(...), which may raise
ConstructProvider(p) ==
    /\ At(p, "provider")
    /\ \/ \E a \in Addrs :
            /\ address' = [address EXCEPT ![p] = a]
            /\ Goto(p, "save")
       \/ /\ Raise(p, "ProviderError")
          /\ UNCHANGED address
    /\ UNCHANGED <<shared, warned, wallet_data, private_key, signer, loop>>

\* OpenForWrite with the save skipped when the address is the one already stored
OpenForWriteUnlessSameAddress(p) ==
    /\ At(p, "save")
    /\ wallet_data' = [wallet_data EXCEPT ![p] = WalletRecord(private_key[p], address[p])]
    /\ IF Get(wallet_data[p], "smart_wallet_address") = address[p]
       THEN /\ UNCHANGED file
            /\ Goto(p, "assemble")
       ELSE /\ file' = NoRecord("garbage")
            /\ Goto(p, "dump")
    /\ UNCHANGED <<runs, env, lastWriter, warned, private_key, signer, address, loop>>

\* lines 63-67: the new record, and open(wallet_data_file, "w") truncating the file
OpenForWrite(p) ==
    /\ At(p, "save")
    /\ wallet_data' = [wallet_data EXCEPT ![p] = WalletRecord(private_key[p], address[p])]
    /\ file' = NoRecord("garbage")
    /\ Goto(p, "dump")
    /\ UNCHANGED <<runs, env, lastWriter, warned, private_key, signer, address, loop>>

\* DumpWallet that leaves a record another run has written in place
DumpWalletKeepsExisting(p) ==
    /\ At(p, "dump")
    /\ file' = IF file.kind = "object" THEN file ELSE wallet_data[p]
    /\ lastWriter' = p
    /\ Goto(p, "assemble")
    /\ UNCHANGED <<runs, env, startup, loop>>

\* line 68: json.dump(wallet_data, f, indent=2) and the close of the file
DumpWallet(p) ==
    /\ At(p, "dump")
    /\ file' = wallet_data[p]
    /\ lastWriter' = p
    /\ Goto(p, "assemble")
    /\ UNCHANGED <<runs, env, startup, loop>>

\* lines 70-103: AgentKit, the action providers, tools, create_react_agent
AssembleAgent(p) ==
    /\ At(p, "assemble")
    /\ \/ Goto(p, "choose")
       \/ Raise(p, "AssemblyError")
    /\ UNCHANGED <<shared, startup, loop>>

\* ------------------------------------------------------------- choose_mode
\* what stdin may hold at the mode prompt
ModeInputs ==
    { <<"1">>, <<"2">>, <<"c", "h", "a", "t">>, <<"C", "H", "A", "T">>,
      <<"a", "u", "t", "o">>, <<" ", "A", "u", "t", "o", " ">>, <<"3">>, <<>> }

\* ModeOf without .lower()
ModeOfCaseSensitive(raw) ==
    LET choice == Strip(raw) IN
    IF choice \in { <<"1">>, <<"c", "h", "a", "t">> } THEN "chat"
    ELSE IF choice \in { <<"2">>, <<"a", "u", "t", "o">> } THEN "auto"
    ELSE None

\* lines 169-173: the mode an input selects, None when it selects none
ModeOf(raw) ==
    LET choice == Strip(Lower(raw)) IN
    IF choice \in { <<"1">>, <<"c", "h", "a", "t">> } THEN "chat"
    ELSE IF choice \in { <<"2">>, <<"a", "u", "t", "o">> } THEN "auto"
    ELSE None

\* line 107: interval=10
DefaultInterval == 10

\* lines 182-185: the run loop main calls for a mode
MainBranch(m) == IF m = "chat" THEN "chat_start" ELSE "auto_start"

\* lines 164-174 and 181-185: one prompt of choose_mode, and main's call of the loop
ChooseMode(p) ==
    /\ At(p, "choose")
    /\ Len(choices[p]) < MaxPrompts
    /\ \E raw \in ModeInputs :
         /\ choices' = [choices EXCEPT ![p] = Append(@, raw)]
         /\ IF ModeOf(raw) = None
            THEN /\ UNCHANGED <<mode, interval, ctl>>
            ELSE /\ mode' = [mode EXCEPT ![p] = ModeOf(raw)]
                 /\ interval' = [interval EXCEPT ![p] =
                        IF ModeOf(raw) = "auto" THEN DefaultInterval ELSE @]
                 /\ Goto(p, MainBranch(ModeOf(raw)))
    /\ UNCHANGED <<shared, startup, lines, dispatched, remaining, printed, log, slept>>

\* input() at end of file: EOFError, which nothing catches
InputEOF(p) ==
    /\ p \in runs /\ status[p] = "running" /\ pc[p] \in {"choose", "chat_input"}
    /\ Raise(p, "EOFError")
    /\ UNCHANGED <<shared, startup, loop>>

\* ------------------------------------------------------------ the run loops
\* the keys a chunk of the response stream may have
ChunkShapes == { {"agent"}, {"tools"}, {"agent", "tools"}, {"other"} }

\* lines 122-126 and 150-154: what is printed for one chunk
PrintChunk(keys) ==
    IF "agent" \in keys THEN <<"agent", "---">>
    ELSE IF "tools" \in keys THEN <<"tools", "---">>
    ELSE <<"---">>

\* agent_executor.stream(...) is called with `content`
Dispatch(p, content) ==
    /\ dispatched' = [dispatched EXCEPT ![p] = Append(@, content)]
    /\ \E n \in 0..MaxChunks : remaining' = [remaining EXCEPT ![p] = n]

\* one iteration of the for loop over the stream
ConsumeChunk(p) ==
    /\ remaining[p] > 0
    /\ remaining' = [remaining EXCEPT ![p] = @ - 1]
    /\ \E keys \in ChunkShapes : printed' = [printed EXCEPT ![p] = PrintChunk(keys)]

\* what stdin may hold at the chat prompt
ChatInputs ==
    { <<"e", "x", "i", "t">>, <<"E", "X", "I", "T">>, <<"E", "x", "i", "t">>,
      <<" ", "e", "x", "i", "t">>, <<"h", "i">> }

\* IsExit without .lower()
IsExitCaseSensitive(raw) == raw = <<"e", "x", "i", "t">>

\* line 143: user_input.lower() == "exit"
IsExit(raw) == Lower(raw) = <<"e", "x", "i", "t">>

\* line 139
ChatStart(p) ==
    /\ At(p, "chat_start")
    /\ Goto(p, "chat_input")
    /\ UNCHANGED <<shared, startup, loop>>

\* break, the return of run_chat_mode and of main
ChatReturn(p) ==
    /\ status' = [status EXCEPT ![p] = "returned"]
    /\ exitStatus' = [exitStatus EXCEPT ![p] = 0]
    /\ UNCHANGED <<pc, exception, farewell>>

\* lines 142-144: input(), and break on "exit"
ChatRead(p) ==
    /\ At(p, "chat_input")
    /\ Len(lines[p]) < MaxLines
    /\ \E raw \in ChatInputs :
         /\ lines' = [lines EXCEPT ![p] = Append(@, raw)]
         /\ IF IsExit(raw) THEN ChatReturn(p) ELSE Goto(p, "chat_dispatch")
    /\ UNCHANGED <<shared, startup, choices, mode, interval, dispatched, remaining,
                   printed, log, slept>>

\* lines 147-149: the agent is called with the line just read
ChatDispatch(p) ==
    /\ At(p, "chat_dispatch")
    /\ Dispatch(p, lines[p][Len(lines[p])])
    /\ Goto(p, "chat_stream")
    /\ UNCHANGED <<shared, startup, choices, mode, interval, lines, printed, log, slept>>

\* lines 147-154: one chunk
ChatChunk(p) ==
    /\ At(p, "chat_stream")
    /\ ConsumeChunk(p)
    /\ UNCHANGED <<shared, ctl, startup, choices, mode, interval, lines, dispatched,
                   log, slept>>

\* the stream is exhausted: back to line 142
ChatStreamEnd(p) ==
    /\ At(p, "chat_stream")
    /\ remaining[p] = 0
    /\ Goto(p, "chat_input")
    /\ UNCHANGED <<shared, startup, loop>>

\* line 113-116
thought ==
    << "Be creative and do something interesting on the blockchain. ",
       "Choose an action or set of actions and execute it that highlights your abilities." >>

\* line 109
AutoStart(p) ==
    /\ At(p, "auto_start")
    /\ Goto(p, "auto_dispatch")
    /\ UNCHANGED <<shared, startup, loop>>

\* the dispatches a run has made
Dispatches(p) == Len(dispatched[p])

\* lines 113-121: the agent is called with the fixed prompt
AutoDispatch(p) ==
    /\ At(p, "auto_dispatch")
    /\ Dispatches(p) < MaxCycles
    /\ Dispatch(p, thought)
    /\ log' = [log EXCEPT ![p] = Append(@, "dispatch")]
    /\ Goto(p, "auto_stream")
    /\ UNCHANGED <<shared, startup, choices, mode, interval, lines, printed, slept>>

\* lines 119-126: one chunk
AutoChunk(p) ==
    /\ At(p, "auto_stream")
    /\ ConsumeChunk(p)
    /\ UNCHANGED <<shared, ctl, startup, choices, mode, interval, lines, dispatched,
                   log, slept>>

\* AutoStreamEnd that goes back to the dispatch without sleeping
AutoStreamEndSkipsSleep(p) ==
    /\ At(p, "auto_stream")
    /\ remaining[p] = 0
    /\ Goto(p, "auto_dispatch")
    /\ UNCHANGED <<shared, startup, loop>>

\* the stream is exhausted: on to line 129
AutoStreamEnd(p) ==
    /\ At(p, "auto_stream")
    /\ remaining[p] = 0
    /\ Goto(p, "auto_sleep")
    /\ UNCHANGED <<shared, startup, loop>>

\* AfterSleep that leaves the loop: run_autonomous_mode and main return
AfterSleepReturns(p) == ChatReturn(p)

\* where run_autonomous_mode goes when time.sleep returns: back to line 110
AfterSleep(p) == Goto(p, "auto_dispatch")

\* line 129: time.sleep(interval) returns
AutoSleep(p) ==
    /\ At(p, "auto_sleep")
    /\ log' = [log EXCEPT ![p] = Append(@, "sleep")]
    /\ slept' = [slept EXCEPT ![p] = @ + interval[p]]
    /\ AfterSleep(p)
    /\ UNCHANGED <<shared, startup, choices, mode, interval, lines, dispatched,
                   remaining, printed>>

\* the model or a tool raises while the stream is consumed: nothing catches it
StreamFail(p) ==
    /\ p \in runs /\ status[p] = "running" /\ pc[p] \in {"chat_stream", "auto_stream"}
    /\ Raise(p, "AgentError")
    /\ UNCHANGED <<shared, startup, loop>>

\* the statements inside the try blocks of lines 111-133 and 141-158
TryPcs ==
    {"chat_input", "chat_dispatch", "chat_stream",
     "auto_dispatch", "auto_stream", "auto_sleep"}

\* lines 131-133 and 156-158: the handler's exit status
HandlerStatus == 0

\* InterruptLoop whose handler prints the farewell and does not call sys.exit
InterruptLoopWithoutExit(p) ==
    /\ p \in runs /\ status[p] = "running" /\ pc[p] \in TryPcs
    /\ farewell' = [farewell EXCEPT ![p] = TRUE]
    /\ exception' = [exception EXCEPT ![p] = "KeyboardInterrupt"]
    /\ UNCHANGED <<pc, status, exitStatus, shared, startup, loop>>

\* lines 131-133 and 156-158: except KeyboardInterrupt
InterruptLoop(p) ==
    /\ p \in runs /\ status[p] = "running" /\ pc[p] \in TryPcs
    /\ farewell' = [farewell EXCEPT ![p] = TRUE]
    /\ status' = [status EXCEPT ![p] = "exited"]
    /\ exception' = [exception EXCEPT ![p] = "KeyboardInterrupt"]
    /\ exitStatus' = [exitStatus EXCEPT ![p] = HandlerStatus]
    /\ UNCHANGED <<pc, shared, startup, loop>>

\* a KeyboardInterrupt outside the run loops' try blocks: nothing catches it
UncaughtPcs ==
    {"llm", "load", "resolve", "signer", "provider", "save", "dump", "assemble",
     "choose", "chat_start", "auto_start"}

InterruptUncaught(p) ==
    /\ p \in runs /\ status[p] = "running" /\ pc[p] \in UncaughtPcs
    /\ status' = [status EXCEPT ![p] = "crashed"]
    /\ exception' = [exception EXCEPT ![p] = "KeyboardInterrupt"]
    /\ exitStatus' = [exitStatus EXCEPT ![p] = 130]
    /\ UNCHANGED <<pc, farewell, shared, startup, loop>>

\* lines 28-103
InitializeAgent(p) ==
    \/ InitLLM(p)
    \/ LoadWallet(p)
    \/ ResolveKey(p)
    \/ MakeSigner(p)
    \/ ConstructProvider(p)
    \/ OpenForWrite(p)
    \/ DumpWallet(p)
    \/ AssembleAgent(p)
    \/ InterruptUncaught(p)

\* lines 107-185
RunLoops(p) ==
    \/ ChooseMode(p)
    \/ InputEOF(p)
    \/ ChatStart(p)
    \/ ChatRead(p)
    \/ ChatDispatch(p)
    \/ ChatChunk(p)
    \/ ChatStreamEnd(p)
    \/ AutoStart(p)
    \/ AutoDispatch(p)
    \/ AutoChunk(p)
    \/ AutoStreamEnd(p)
    \/ AutoSleep(p)
    \/ StreamFail(p)
    \/ InterruptLoop(p)

\* one run of the program
Next == \E p \in Procs : InitializeAgent(p) \/ RunLoops(p)

Spec == Init /\ [][Next]_vars

\* two runs started against the same network identifier; both are followed
\* through initialize_agent, the only code that touches the file
InitRace == runs = Procs /\ InitCommon

NextRace == \E p \in Procs : InitializeAgent(p)

SpecRace == InitRace /\ [][NextRace]_vars

\* ======================================================================
\* Properties
\* ======================================================================

\* ----------------------------------------------------------------- C1
\* C1: the signing key is the wallet record's key if the record has one
\* (a non-empty value), else PRIVATE_KEY if it is set and non-empty, else a
\* generated key; the signer is built from exactly that key, and a record
\* key wins over PRIVATE_KEY.
C1_KeyResolutionOrder ==
    \A p \in runs :
        pc[p] \in {"signer", "provider", "save"} =>
            LET rk == wallet_data[p].private_key
                hasRecordKey == rk \notin {Absent, None, Empty}
                hasEnvKey == env \notin {None, Empty}
            IN
            /\ hasRecordKey => private_key[p] = rk
            /\ ~hasRecordKey /\ hasEnvKey => private_key[p] = env
            /\ ~hasRecordKey /\ ~hasEnvKey => private_key[p] \in GenKeys
            /\ private_key[p] \in EnvKeys => ~hasRecordKey
            /\ private_key[p] \in GenKeys => ~hasRecordKey /\ ~hasEnvKey
            /\ pc[p] \in {"provider", "save"} => signer[p] = private_key[p]

\* the record holds a key, PRIVATE_KEY is set too, and the signer has the record's key
C1_Witness ==
    /\ pc[1] = "provider"
    /\ wallet_data[1].private_key = "k1"
    /\ env = "e1"
    /\ signer[1] = "k1"

\* ----------------------------------------------------------------- C2
\* the file kinds C2 calls absent or corrupt: no file, text that is not JSON,
\* bytes that are not text
AbsentOrCorrupt == {"missing", "garbage", "notutf8"}

\* C2: for an absent or corrupt wallet-record file the load does not raise,
\* and the record written afterwards holds a non-null key and the adapter's
\* address.
C2_AbsentOrCorruptFailsSoft ==
    \A p \in runs :
        /\ pc[p] = "load" /\ file.kind \in AbsentOrCorrupt =>
               exception[p] \in {None, "KeyboardInterrupt"}
        /\ pc[p] = "assemble" /\ lastWriter = p =>
               /\ file.kind = "object"
               /\ file.private_key \notin {Absent, None}
               /\ file.smart_wallet_address = address[p]

\* ----------------------------------------------------------------- C3
\* C3: once the save is done the file is exactly {private_key: the resolved
\* key, smart_wallet_address: the adapter's address}, whatever it held
\* before, and stays so for the rest of the run.
C3_SaveReplacesFile ==
    \A p \in runs :
        pc[p] \notin {"llm", "load", "resolve", "signer", "provider", "save", "dump"} =>
            /\ file.kind = "object"
            /\ file.private_key = private_key[p]
            /\ file.private_key = signer[p]
            /\ file.smart_wallet_address = address[p]
            /\ address[p] \in Addrs
            /\ file.extra = Absent

\* the record held key k1 before; the adapter reported a1, the address a prior
\* record may hold, and the file was rewritten
C3_Witness ==
    /\ pc[1] = "assemble"
    /\ lastWriter = 1
    /\ file = WalletRecord("k1", "a1")

\* ----------------------------------------------------------------- C4
\* a letter in either case
BothCases(c) ==
    CASE c = "e" -> {"e", "E"} [] c = "x" -> {"x", "X"} [] c = "i" -> {"i", "I"}
      [] c = "t" -> {"t", "T"} [] c = "c" -> {"c", "C"} [] c = "h" -> {"h", "H"}
      [] c = "a" -> {"a", "A"} [] c = "u" -> {"u", "U"} [] c = "o" -> {"o", "O"}
      [] OTHER -> {c}

\* the spellings of a word in any letter case
RECURSIVE Spellings(_)
Spellings(w) ==
    IF w = <<>> THEN {<<>>}
    ELSE {<<c>> \o r : c \in BothCases(Head(w)), r \in Spellings(Tail(w))}

ExitSpellings == Spellings(<<"e", "x", "i", "t">>)

NotExitLine(l) == l \notin ExitSpellings

\* C4: in chat mode the messages dispatched are exactly the lines read that
\* are not a spelling of "exit", once each and in order; a spelling of "exit"
\* is the last line read and ends the loop; the next line is read only after
\* the stream is consumed.
C4_ChatDispatchesEachLineOnce ==
    \A p \in runs :
        mode[p] = "chat" =>
            LET n == Len(lines[p]) IN
            /\ \A i \in 1..(n - 1) : NotExitLine(lines[p][i])
            /\ (status[p] = "returned") <=> (n > 0 /\ ~NotExitLine(lines[p][n]))
            /\ pc[p] = "chat_dispatch" =>
                   dispatched[p] = SelectSeq(SubSeq(lines[p], 1, n - 1), NotExitLine)
            /\ pc[p] \in {"chat_start", "chat_input", "chat_stream"} =>
                   dispatched[p] = SelectSeq(lines[p], NotExitLine)
            /\ pc[p] = "chat_input" => remaining[p] = 0

\* two lines were dispatched, one of them " exit", and "EXIT" ended the loop
C4_Witness ==
    /\ status[1] = "returned"
    /\ lines[1] = << <<"h", "i">>, <<" ", "e", "x", "i", "t">>, <<"E", "X", "I", "T">> >>
    /\ dispatched[1] = << <<"h", "i">>, <<" ", "e", "x", "i", "t">> >>

\* ----------------------------------------------------------------- C5
\* the states of the run loops: awaiting input, dispatching, streaming, sleeping
RunLoopStates ==
    {"chat_input", "chat_dispatch", "chat_stream",
     "auto_dispatch", "auto_stream", "auto_sleep"}

\* C5: in every run-loop state an interrupt can be taken, and a run that was
\* interrupted there has printed the farewell, has exit status 0 and
\* dispatches nothing more.
C5_InterruptEndsRun ==
    \A p \in runs :
        /\ status[p] = "running" /\ pc[p] \in RunLoopStates => ENABLED InterruptLoop(p)
        /\ exception[p] = "KeyboardInterrupt" /\ pc[p] \in RunLoopStates =>
               /\ status[p] = "exited"
               /\ farewell[p]
               /\ exitStatus[p] = 0
               /\ ~ENABLED (ChatDispatch(p) \/ AutoDispatch(p))

\* interrupted while sleeping
C5_Witness ==
    /\ exception[1] = "KeyboardInterrupt"
    /\ pc[1] = "auto_sleep"
    /\ exitStatus[1] = 0
    /\ farewell[1]

\* ----------------------------------------------------------------- C6
\* C6: in autonomous mode dispatches and pauses strictly alternate, starting
\* with a dispatch; every dispatch carries the fixed prompt; every pause
\* lasts 10; a pause starts only when the stream is consumed; no line of
\* input is read.
C6_AutoAlternates ==
    \A p \in runs :
        mode[p] = "auto" =>
            LET n == Len(log[p])
                sleeps == Cardinality({i \in 1..n : log[p][i] = "sleep"})
            IN
            /\ \A i \in 1..n : log[p][i] = IF i % 2 = 1 THEN "dispatch" ELSE "sleep"
            /\ Len(dispatched[p]) = n - sleeps
            /\ \A i \in 1..Len(dispatched[p]) : dispatched[p][i] = thought
            /\ slept[p] = 10 * sleeps
            /\ lines[p] = <<>>
            /\ pc[p] = "auto_sleep" => remaining[p] = 0 /\ n % 2 = 1
            /\ pc[p] = "auto_stream" => n % 2 = 1
            /\ pc[p] \in {"auto_start", "auto_dispatch"} => n % 2 = 0

\* a second dispatch, after one pause
C6_Witness ==
    /\ mode[1] = "auto"
    /\ log[1] = <<"dispatch", "sleep", "dispatch">>
    /\ slept[1] = 10

\* ----------------------------------------------------------------- C7
\* C7 as stated: a run in autonomous mode ends only by an interrupt.
C7_OnlyInterruptEnds ==
    \A p \in runs :
        mode[p] = "auto" /\ status[p] # "running" => exception[p] = "KeyboardInterrupt"

\* the loop's own steps
AutoStep(p) ==
    AutoStart(p) \/ AutoDispatch(p) \/ AutoChunk(p) \/ AutoStreamEnd(p) \/ AutoSleep(p)

\* C7 amended: a run in autonomous mode never returns; it ends only by an
\* interrupt or by an exception raised while the response stream is
\* consumed; while it runs the loop always has a next step.
C7_AutoEndsOnlyByInterruptOrFailure ==
    \A p \in runs :
        mode[p] = "auto" =>
            /\ status[p] # "returned"
            /\ status[p] # "running" => exception[p] \in {"KeyboardInterrupt", "AgentError"}
            /\ status[p] = "running" /\ Dispatches(p) < MaxCycles => ENABLED AutoStep(p)

\* the second cycle's stream failed and ended the run
C7_Witness ==
    /\ mode[1] = "auto"
    /\ exception[1] = "AgentError"
    /\ status[1] = "crashed"
    /\ Len(log[1]) = 3

\* ----------------------------------------------------------------- C8
\* the inputs C8 names for chat mode and for autonomous mode, in any letter case
ChatNames == {<<"1">>} \cup Spellings(<<"c", "h", "a", "t">>)

AutoNames == {<<"2">>} \cup Spellings(<<"a", "u", "t", "o">>)

\* the mode the inputs named in C8 select, compared case-insensitively
NamedMode(raw) ==
    IF raw \in ChatNames THEN "chat" ELSE IF raw \in AutoNames THEN "auto" ELSE None

\* raw without the white space before and after it, if what is left is in S
PaddedIn(raw, S) ==
    \E i \in 1..(Len(raw) + 1) : \E j \in 0..Len(raw) :
        /\ \A k \in (1..(i - 1)) \cup ((j + 1)..Len(raw)) : raw[k] \in {" ", "\t", "\n"}
        /\ SubSeq(raw, i, j) \in S

\* the mode an input selects when surrounding white space is ignored as well
NamedModePadded(raw) ==
    IF PaddedIn(raw, ChatNames) THEN "chat"
    ELSE IF PaddedIn(raw, AutoNames) THEN "auto"
    ELSE None

\* choose_mode and main, for a reading Sel of which mode an input selects:
\* every input before the last selected none; the last input's mode, if it
\* selects one, is main's mode and main is in that mode's loop; otherwise no
\* mode is selected and the run is still at the prompt.
ChoosesBy(Sel(_)) ==
    \A p \in runs :
        LET n == Len(choices[p]) IN
        /\ \A i \in 1..(n - 1) : Sel(choices[p][i]) = None
        /\ IF n > 0 /\ Sel(choices[p][n]) # None
           THEN /\ mode[p] = Sel(choices[p][n])
                /\ mode[p] = "chat" =>
                     pc[p] \in {"chat_start", "chat_input", "chat_dispatch", "chat_stream"}
                /\ mode[p] = "auto" =>
                     pc[p] \in {"auto_start", "auto_dispatch", "auto_stream", "auto_sleep"}
           ELSE /\ mode[p] = None
                /\ pc[p] \notin {"chat_start", "chat_input", "chat_dispatch", "chat_stream",
                                 "auto_start", "auto_dispatch", "auto_stream", "auto_sleep"}

\* C8 as stated: "1" and any spelling of "chat" select chat, "2" and any
\* spelling of "auto" select autonomous, every other input re-prompts.
C8_OnlyNamedInputsSelect == ChoosesBy(NamedMode)

\* C8 amended: the same, with white space around the input ignored.
C8_NamedInputsSelectModuloSpace == ChoosesBy(NamedModePadded)

\* an invalid input re-prompted, then " Auto " selected autonomous mode
C8_Witness ==
    /\ choices[1] = << <<"3">>, <<" ", "A", "u", "t", "o", " ">> >>
    /\ mode[1] = "auto"
    /\ pc[1] = "auto_dispatch"

\* ----------------------------------------------------------------- C9
\* C9: a run whose wallet-provider constructor raised has stopped there: the
\* file is as it was loaded (no generated key in it), no mode prompt was
\* read, nothing was dispatched, and the run takes no further step.
C9_ProviderFailureAborts ==
    \A p \in runs :
        exception[p] = "ProviderError" =>
            /\ status[p] = "crashed"
            /\ pc[p] = "provider"
            /\ \/ file = wallet_data[p]
               \/ file.kind \in {"missing", "garbage"} /\ wallet_data[p] = WalletRecord(None, None)
            /\ file.private_key \notin GenKeys
            /\ lastWriter = 0
            /\ choices[p] = <<>> /\ mode[p] = None
            /\ dispatched[p] = <<>>
            /\ ~ENABLED (InitializeAgent(p) \/ RunLoops(p))

\* the constructor failed after a key was generated for a run with no file
C9_Witness ==
    /\ exception[1] = "ProviderError"
    /\ private_key[1] \in GenKeys
    /\ file.kind = "missing"

\* ---------------------------------------------------------------- C10
\* C10: the load takes no lock (a run can read while the other is between
\* open and dump); two runs that both loaded no key, with no PRIVATE_KEY,
\* each generate a key of their own; and when two runs with keys of their own
\* have both saved, the file is the record of the run that wrote last and the
\* other run's signer has a key that is not the one in the file.
C10_RaceLosesAKey ==
    \A p \in runs : \A q \in runs \ {p} :
        /\ At(p, "load") /\ pc[q] \in {"save", "dump"} => ENABLED LoadWallet(p)
        /\ ( /\ pc[p] \in {"signer", "provider", "save"}
             /\ pc[q] \in {"signer", "provider", "save"}
             /\ wallet_data[p].private_key \in {Absent, None, Empty}
             /\ wallet_data[q].private_key \in {Absent, None, Empty}
             /\ env \in {None, Empty} )
           => /\ private_key[p] \in GenKeys /\ private_key[q] \in GenKeys
              /\ private_key[p] # private_key[q]
        /\ ( /\ pc[p] \in {"assemble", "choose"} /\ pc[q] \in {"assemble", "choose"}
             /\ private_key[p] \in GenKeys /\ private_key[q] \in GenKeys
             /\ private_key[p] # private_key[q]
             /\ lastWriter = q )
           => /\ file = WalletRecord(private_key[q], address[q])
              /\ signer[p] = private_key[p]
              /\ signer[p] # file.private_key

\* no PRIVATE_KEY, neither run met a truncated file, each generated its own
\* key, run 2 wrote last: the file has run 2's key and run 1 signs with g1
C10_Witness ==
    /\ env = None
    /\ ~warned[1] /\ ~warned[2]
    /\ pc[1] = "choose" /\ pc[2] = "choose"
    /\ private_key[1] = "g1" /\ private_key[2] = "g2"
    /\ lastWriter = 2
    /\ file.private_key = "g2"
    /\ signer[1] = "g1"
====
